---- MODULE Spec2Model ----
(***************************************************************************)
(* Model of pyannote/metrics/matcher.py: LabelMatcher,                     *)
(* UnknownSupportMixin and LabelMatcherWithUnknownSupport.                 *)
(*                                                                         *)
(* One matcher instance is modelled.  It owns one solver object            *)
(* (self._munkres, created in __init__) whose attributes are the variable  *)
(* munkres.  Every call of the matcher (LabelMatcher.__call__) is a        *)
(* process with its own local variables.  Indices r and h are 0-based as   *)
(* in the source; TLA+ sequences are 1-based, so cell (r,h) of a matrix M  *)
(* is M[r+1][h+1] and item r of a list L is L[r+1].                        *)
(***************************************************************************)
EXTENDS Integers, Sequences, FiniteSets, TLC

\* ---------------------------------------------------------------- bounds
MaxLen == 2        \* longest reference / hypothesis sequence
NumCalls == 2      \* call frames (threads) of the one matcher instance
ConcLen == 2       \* longest sequence given to calls that run concurrently

\* ------------------------------------------------------------- constants
MATCH_CORRECT == "correct"
MATCH_CONFUSION == "confusion"
MATCH_MISSED_DETECTION == "missed detection"
MATCH_FALSE_ALARM == "false alarm"
MATCH_TOTAL == "total"

Kinds == {MATCH_CORRECT, MATCH_CONFUSION, MATCH_MISSED_DETECTION, MATCH_FALSE_ALARM}

\* --------------------------------------------------------------- labels
\* A label is a value with standard equality.  An instance of
\* pyannote.core.Unknown carries distinguishing data (id); two Unknown
\* instances with different data are not equal under ==.
Known(i) == [unknown |-> FALSE, id |-> i]
Unknown(i) == [unknown |-> TRUE, id |-> i]
Labels == {Known(1), Unknown(1), Unknown(2)}

isinstanceUnknown(l) == l.unknown

Max(a, b) == IF a >= b THEN a ELSE b
Min(a, b) == IF a <= b THEN a ELSE b

LabelSeqs == UNION {[1..n -> Labels] : n \in 0..MaxLen}
ConcLabels == {Known(1)}
ConcSeqs == UNION {[1..n -> ConcLabels] : n \in 0..ConcLen}

Calls == 1..NumCalls

Matchers == {"LabelMatcher", "LabelMatcherWithUnknownSupport"}

\* ----------------------------------------------------- match predicates
\* LabelMatcher.match
LabelMatcher_match(rlabel, hlabel) == rlabel = hlabel

\* faulty variant: either label Unknown is enough
UnknownSupportMixin_match_or(rlabel, hlabel) ==
    IF isinstanceUnknown(rlabel) \/ isinstanceUnknown(hlabel)
    THEN TRUE
    ELSE rlabel = hlabel

\* UnknownSupportMixin.match
UnknownSupportMixin_match(rlabel, hlabel) ==
    IF isinstanceUnknown(rlabel) /\ isinstanceUnknown(hlabel)
    THEN TRUE
    ELSE rlabel = hlabel

\* self.match: method resolution on the class of the instance
\* (LabelMatcherWithUnknownSupport takes match from UnknownSupportMixin)
self_match(c, rlabel, hlabel) ==
    IF c = "LabelMatcherWithUnknownSupport"
    THEN UnknownSupportMixin_match(rlabel, hlabel)
    ELSE LabelMatcher_match(rlabel, hlabel)

\* ------------------------------------------------------- matrix helpers
\* faulty variant: one row and column too many
PaddedDim_plus1(nr, nh) == Max(nr, nh) + 1

\* N = max(nr, nh)
PaddedDim(nr, nh) == Max(nr, nh)

\* faulty variant: never take the early return
CornerCase_never(n) == n < 0

\* corner case: if N == 0
CornerCase(n) == n = 0

\* faulty variant: padding cells set to True
MatchMatrix_padTrue(c, rl, hl, n) ==
    [r \in 1..n |-> [h \in 1..n |->
        IF r <= Len(rl) /\ h <= Len(hl)
        THEN self_match(c, rl[r], hl[h])
        ELSE TRUE]]

\* match = np.zeros((N, N), dtype=bool), then filled by the double loop
MatchMatrix(c, rl, hl, n) ==
    [r \in 1..n |-> [h \in 1..n |->
        IF r <= Len(rl) /\ h <= Len(hl)
        THEN self_match(c, rl[r], hl[h])
        ELSE FALSE]]

\* faulty variant: the match matrix itself is handed over as cost
CostMatrix_noflip(m) ==
    [r \in 1..Len(m) |-> [h \in 1..Len(m) |-> IF m[r][h] THEN 1 ELSE 0]]

\* 1 - match
CostMatrix(m) ==
    [r \in 1..Len(m) |-> [h \in 1..Len(m) |-> IF m[r][h] THEN 0 ELSE 1]]

\* ----------------------------------------------------------- the solver
\* bijections of 1..n, as sequences p with p[row] = column
Perms(n) == {p \in [1..n -> 1..n] : \A i, j \in 1..n : p[i] = p[j] => i = j}

RECURSIVE SumCost(_, _, _)
SumCost(C, p, k) == IF k = 0 THEN 0 ELSE C[k][p[k]] + SumCost(C, p, k - 1)

TotalCost(C, p) == SumCost(C, p, Len(C))

\* faulty variant: any complete assignment, optimal or not
Assignments_any(C) == Perms(Len(C))

\* the assignments the Hungarian algorithm may end with: the bijections
\* of minimum total cost
Assignments(C) ==
    {p \in Perms(Len(C)) : \A q \in Perms(Len(C)) : TotalCost(C, p) <= TotalCost(C, q)}

\* Munkres(): a solver with nothing loaded
MunkresNew == [C |-> <<>>, n |-> 0, marked |-> <<>>]

\* faulty variant: a solver that keeps the loaded matrix when the size is unchanged
MunkresLoaded_cached(m, cost) ==
    IF m.n = Len(cost) /\ m.n > 0
    THEN [m EXCEPT !.marked = <<>>]
    ELSE [C |-> cost, n |-> Len(cost), marked |-> <<>>]

\* entry of Munkres.compute: the cost matrix, its size and a cleared
\* marking are stored on the solver object
MunkresLoaded(m, cost) == [C |-> cost, n |-> Len(cost), marked |-> <<>>]

\* the (row, column) pairs of a marking, in row order, 0-based
Results(marked) == [i \in 1..Len(marked) |-> <<i - 1, marked[i] - 1>>]

\* ------------------------------------------------------- classification
\* faulty variant: the two padding kinds exchanged
Kind_padSwapped(r, h, nr, nh, m) ==
    IF r >= nr THEN MATCH_MISSED_DETECTION
    ELSE IF h >= nh THEN MATCH_FALSE_ALARM
    ELSE IF m[r + 1][h + 1] THEN MATCH_CORRECT
    ELSE MATCH_CONFUSION

\* faulty variant: the test on the match cell negated
Kind_negated(r, h, nr, nh, m) ==
    IF r >= nr THEN MATCH_FALSE_ALARM
    ELSE IF h >= nh THEN MATCH_MISSED_DETECTION
    ELSE IF ~m[r + 1][h + 1] THEN MATCH_CORRECT
    ELSE MATCH_CONFUSION

\* the if / elif / elif / else chain of the loop on matches
Kind(r, h, nr, nh, m) ==
    IF r >= nr THEN MATCH_FALSE_ALARM
    ELSE IF h >= nh THEN MATCH_MISSED_DETECTION
    ELSE IF m[r + 1][h + 1] THEN MATCH_CORRECT
    ELSE MATCH_CONFUSION

\* what the taken branch appends to its details list
Detail(r, h, nr, nh, rl, hl) ==
    IF r >= nr THEN hl[h + 1]
    ELSE IF h >= nh THEN rl[r + 1]
    ELSE <<rl[r + 1], hl[h + 1]>>

\* a lookup of the loop body that raises IndexError: hlabels[h] in the
\* first branch (every other lookup is guarded by the tests before it)
IndexError(r, h, nr, hl) == r >= nr /\ h >= Len(hl)

\* faulty variant: the padded dimension is added to the total
TotalIncrement_N(nr, n) == n

\* counts[MATCH_TOTAL] += NR
TotalIncrement(nr, n) == nr

ZeroCounts == [k \in Kinds \cup {MATCH_TOTAL} |-> 0]
EmptyDetails == [k \in Kinds |-> <<>>]

\* ---------------------------------------------------------------- state
VARIABLES
    cls,        \* class of the matcher instance
    munkres,    \* attributes of self._munkres
    pc,         \* position of each call
    rlabels, hlabels, NR, NH, N,   \* locals of each call
    match, mapping, pos, counts, details,
    prevN       \* history: N of the call that returned last, -1 if none

locals == <<rlabels, hlabels, NR, NH, N, match, mapping, pos, counts, details>>
vars == <<cls, munkres, pc, rlabels, hlabels, NR, NH, N, match, mapping, pos,
          counts, details, prevN>>

\* LabelMatcher.__init__ ; no call has started
Init ==
    /\ cls \in Matchers
    /\ munkres = MunkresNew
    /\ pc = [t \in Calls |-> "idle"]
    /\ rlabels = [t \in Calls |-> <<>>]
    /\ hlabels = [t \in Calls |-> <<>>]
    /\ NR = [t \in Calls |-> 0]
    /\ NH = [t \in Calls |-> 0]
    /\ N = [t \in Calls |-> 0]
    /\ match = [t \in Calls |-> <<>>]
    /\ mapping = [t \in Calls |-> <<>>]
    /\ pos = [t \in Calls |-> 0]
    /\ counts = [t \in Calls |-> ZeroCounts]
    /\ details = [t \in Calls |-> EmptyDetails]
    /\ prevN = -1

\* __call__ from its entry to the end of the matrix construction
Call(t, rl, hl) ==
    /\ pc[t] = "idle"
    /\ counts' = [counts EXCEPT ![t] = ZeroCounts]
    /\ details' = [details EXCEPT ![t] = EmptyDetails]
    /\ NR' = [NR EXCEPT ![t] = Len(rl)]
    /\ NH' = [NH EXCEPT ![t] = Len(hl)]
    /\ N' = [N EXCEPT ![t] = PaddedDim(Len(rl), Len(hl))]
    /\ rlabels' = [rlabels EXCEPT ![t] = rl]
    /\ hlabels' = [hlabels EXCEPT ![t] = hl]
    /\ IF CornerCase(N'[t])
       THEN /\ pc' = [pc EXCEPT ![t] = "done"]
            /\ UNCHANGED match
       ELSE /\ match' = [match EXCEPT ![t] = MatchMatrix(cls, rl, hl, N'[t])]
            /\ pc' = [pc EXCEPT ![t] = "compute"]
    /\ UNCHANGED <<cls, munkres, mapping, pos, prevN>>

\* self._munkres.compute(1 - match): the argument is stored on the solver
MunkresLoad(t) ==
    /\ pc[t] = "compute"
    /\ munkres' = MunkresLoaded(munkres, CostMatrix(match[t]))
    /\ pc' = [pc EXCEPT ![t] = "solve"]
    /\ UNCHANGED <<cls, locals, prevN>>

\* compute: the algorithm runs on the matrix the solver holds
MunkresSolve(t) ==
    /\ pc[t] = "solve"
    /\ \E p \in Assignments(munkres.C) : munkres' = [munkres EXCEPT !.marked = p]
    /\ pc' = [pc EXCEPT ![t] = "results"]
    /\ UNCHANGED <<cls, locals, prevN>>

\* compute returns the pairs marked on the solver; mapping = ...
MunkresResults(t) ==
    /\ pc[t] = "results"
    /\ mapping' = [mapping EXCEPT ![t] = Results(munkres.marked)]
    /\ pos' = [pos EXCEPT ![t] = 1]
    /\ pc' = [pc EXCEPT ![t] = "loop"]
    /\ UNCHANGED <<cls, munkres, rlabels, hlabels, NR, NH, N, match, counts, details, prevN>>

\* one iteration of: for r, h in mapping
LoopStep(t) ==
    /\ pc[t] = "loop"
    /\ pos[t] <= Len(mapping[t])
    /\ LET r == mapping[t][pos[t]][1]
           h == mapping[t][pos[t]][2]
       IN  IF IndexError(r, h, NR[t], hlabels[t])
           THEN /\ counts' = [counts EXCEPT ![t][MATCH_FALSE_ALARM] = @ + 1]
                /\ pc' = [pc EXCEPT ![t] = "failed"]
                /\ UNCHANGED <<details, pos>>
           ELSE LET k == Kind(r, h, NR[t], NH[t], match[t])
                IN  /\ counts' = [counts EXCEPT ![t][k] = @ + 1]
                    /\ details' = [details EXCEPT ![t][k] =
                                     Append(@, Detail(r, h, NR[t], NH[t], rlabels[t], hlabels[t]))]
                    /\ pos' = [pos EXCEPT ![t] = @ + 1]
                    /\ UNCHANGED pc
    /\ UNCHANGED <<cls, munkres, rlabels, hlabels, NR, NH, N, match, mapping, prevN>>

\* after the loop: counts[MATCH_TOTAL] += NR ; return (counts, details)
Finish(t) ==
    /\ pc[t] = "loop"
    /\ pos[t] > Len(mapping[t])
    /\ counts' = [counts EXCEPT ![t][MATCH_TOTAL] = @ + TotalIncrement(NR[t], N[t])]
    /\ pc' = [pc EXCEPT ![t] = "done"]
    /\ UNCHANGED <<cls, munkres, rlabels, hlabels, NR, NH, N, match, mapping, pos, details, prevN>>

\* the caller has taken the result (or the exception); the frame is gone
Return(t) ==
    /\ pc[t] \in {"done", "failed"}
    /\ pc' = [pc EXCEPT ![t] = "idle"]
    /\ rlabels' = [rlabels EXCEPT ![t] = <<>>]
    /\ hlabels' = [hlabels EXCEPT ![t] = <<>>]
    /\ NR' = [NR EXCEPT ![t] = 0]
    /\ NH' = [NH EXCEPT ![t] = 0]
    /\ N' = [N EXCEPT ![t] = 0]
    /\ match' = [match EXCEPT ![t] = <<>>]
    /\ mapping' = [mapping EXCEPT ![t] = <<>>]
    /\ pos' = [pos EXCEPT ![t] = 0]
    /\ counts' = [counts EXCEPT ![t] = ZeroCounts]
    /\ details' = [details EXCEPT ![t] = EmptyDetails]
    /\ prevN' = N[t]
    /\ UNCHANGED <<cls, munkres>>

\* the thread of a caller that makes its calls one after the other
MainThread == CHOOSE t \in Calls : \A u \in Calls : t <= u

\* a call made by the main thread
SeqCall(t) ==
    /\ pc[t] = "idle"
    /\ \E rl \in LabelSeqs : \E hl \in LabelSeqs : Call(t, rl, hl)

\* a call made by a thread, whatever the other threads do
ConcCall(t) ==
    /\ pc[t] = "idle"
    /\ \E rl \in ConcSeqs : \E hl \in ConcSeqs : Call(t, rl, hl)

Step(t) ==
    \/ MunkresLoad(t)
    \/ MunkresSolve(t)
    \/ MunkresResults(t)
    \/ LoopStep(t)
    \/ Finish(t)
    \/ Return(t)

\* calls made one after the other, by the main thread alone
Next == SeqCall(MainThread) \/ Step(MainThread)

Spec == Init /\ [][Next]_vars

\* calls made from several threads
NextConc == \E t \in Calls : ConcCall(t) \/ Step(t)

SpecConc == Init /\ [][NextConc]_vars

\* ------------------------------------------------- reference quantities
\* one-to-one pairings of reference indices with hypothesis indices:
\* f[r] = 0 leaves r unpaired
Pairings(nr, nh) ==
    {f \in [1..nr -> 0..nh] :
        \A a, b \in 1..nr : (f[a] # 0 /\ f[a] = f[b]) => a = b}

\* number of paired (r,h) for which the predicate holds
Hits(c, rl, hl, f) ==
    Cardinality({r \in 1..Len(rl) : f[r] # 0 /\ self_match(c, rl[r], hl[f[r]])})

\* brute-force maximum over all one-to-one pairings
MaxMatching(c, rl, hl) ==
    LET P == Pairings(Len(rl), Len(hl))
    IN  CHOOSE k \in 0..Len(rl) :
            /\ \E f \in P : Hits(c, rl, hl, f) = k
            /\ \A f \in P : Hits(c, rl, hl, f) <= k

\* the loop on matches run over the first k pairs of a mapping
RECURSIVE RunLoop(_, _, _, _, _, _, _)
RunLoop(mp, k, nr, nh, rl, hl, m) ==
    IF k = 0 THEN [counts |-> ZeroCounts, details |-> EmptyDetails]
    ELSE LET before == RunLoop(mp, k - 1, nr, nh, rl, hl, m)
             r == mp[k][1]
             h == mp[k][2]
             kd == Kind(r, h, nr, nh, m)
         IN  [counts |-> [before.counts EXCEPT ![kd] = @ + 1],
              details |-> [before.details EXCEPT ![kd] =
                              Append(@, Detail(r, h, nr, nh, rl, hl))]]

\* what a call returns on a matcher nobody else uses, one result for each
\* assignment the solver may pick
AloneResults(c, rl, hl) ==
    LET n == PaddedDim(Len(rl), Len(hl))
        m == MatchMatrix(c, rl, hl, n)
    IN  IF CornerCase(n)
        THEN {[counts |-> ZeroCounts, details |-> EmptyDetails]}
        ELSE {LET res == RunLoop(Results(p), n, Len(rl), Len(hl), rl, hl, m)
              IN  [counts |-> [res.counts EXCEPT ![MATCH_TOTAL] =
                                  @ + TotalIncrement(Len(rl), n)],
                   details |-> res.details]
              : p \in Assignments(CostMatrix(m))}

AloneCounts(c, rl, hl) == {res.counts : res \in AloneResults(c, rl, hl)}

Done(t) == pc[t] = "done"

Range(sq) == {sq[i] : i \in 1..Len(sq)}

\* -------------------------------------------------------------- claims

\* C1: the correct count a call returns is the maximum, over all
\* one-to-one pairings of reference with hypothesis indices, of the number
\* of paired items for which the predicate holds.
C1_CorrectIsMaximum ==
    \A t \in Calls : Done(t) =>
        counts[t][MATCH_CORRECT] = MaxMatching(cls, rlabels[t], hlabels[t])

\* a returned call whose two matches both pair items at different positions
C1_Witness ==
    \E t \in Calls :
        /\ Done(t)
        /\ NR[t] = 2 /\ NH[t] = 2
        /\ counts[t][MATCH_CORRECT] = 2
        /\ ~self_match(cls, rlabels[t][1], hlabels[t][1])

\* C2: correct + confusion + missed detection + false alarm is
\* max(NR, NH) and total is NR.
C2_Conservation ==
    \A t \in Calls : Done(t) =>
        /\ counts[t][MATCH_CORRECT] + counts[t][MATCH_CONFUSION]
             + counts[t][MATCH_MISSED_DETECTION] + counts[t][MATCH_FALSE_ALARM]
           = Max(Len(rlabels[t]), Len(hlabels[t]))
        /\ counts[t][MATCH_TOTAL] = Len(rlabels[t])

\* a returned call with fewer reference than hypothesis items
C2_Witness ==
    \E t \in Calls :
        /\ Done(t)
        /\ Len(rlabels[t]) >= 1
        /\ Len(rlabels[t]) < Len(hlabels[t])
        /\ counts[t][MATCH_TOTAL] < Max(Len(rlabels[t]), Len(hlabels[t]))

\* C3: every processed pair of the assignment is counted once, under the
\* kind given by the priority order (padding row, padding column, match
\* cell, else confusion) and with the detail of that kind; each details
\* list is as long as its count; every pair in details['correct']
\* satisfies the predicate and none in details['confusion'] does.
C3_Classification ==
    \A t \in Calls : (pc[t] \in {"loop", "done"} /\ pos[t] >= 1) =>
        /\ \A k \in Kinds : Len(details[t][k]) = counts[t][k]
        /\ counts[t][MATCH_CORRECT] + counts[t][MATCH_CONFUSION]
             + counts[t][MATCH_MISSED_DETECTION] + counts[t][MATCH_FALSE_ALARM]
           = pos[t] - 1
        /\ \A d \in Range(details[t][MATCH_CORRECT]) : self_match(cls, d[1], d[2])
        /\ \A d \in Range(details[t][MATCH_CONFUSION]) : ~self_match(cls, d[1], d[2])
        /\ \A i \in 1..(pos[t] - 1) :
             LET r == mapping[t][i][1]
                 h == mapping[t][i][2]
             IN  IF r >= NR[t]
                 THEN hlabels[t][h + 1] \in Range(details[t][MATCH_FALSE_ALARM])
                 ELSE IF h >= NH[t]
                 THEN rlabels[t][r + 1] \in Range(details[t][MATCH_MISSED_DETECTION])
                 ELSE IF match[t][r + 1][h + 1]
                 THEN <<rlabels[t][r + 1], hlabels[t][h + 1]>>
                          \in Range(details[t][MATCH_CORRECT])
                 ELSE <<rlabels[t][r + 1], hlabels[t][h + 1]>>
                          \in Range(details[t][MATCH_CONFUSION])

\* a returned call with a correct pair, a confusion and nothing else
C3_Witness ==
    \E t \in Calls :
        /\ Done(t)
        /\ Len(details[t][MATCH_CORRECT]) = 1
        /\ Len(details[t][MATCH_CONFUSION]) = 1

\* C4: calls in flight at the same time do not interfere: each returns,
\* without failing, counts and details it can return when run alone.
C4_NoInterference ==
    \A t \in Calls :
        /\ pc[t] # "failed"
        /\ Done(t) =>
             [counts |-> counts[t], details |-> details[t]]
                 \in AloneResults(cls, rlabels[t], hlabels[t])

C6_UnknownPredicate ==
    \A t \in Calls : (cls = "LabelMatcherWithUnknownSupport" /\ pc[t] # "idle") =>
        /\ \A r \in 1..NR[t] : \A h \in 1..NH[t] :
             match[t][r][h] =
                IF rlabels[t][r].unknown /\ hlabels[t][h].unknown
                THEN TRUE
                ELSE LabelMatcher_match(rlabels[t][r], hlabels[t][h])
        /\ (Done(t) /\ NR[t] = 1 /\ NH[t] = 1
              /\ rlabels[t][1].unknown /\ hlabels[t][1].unknown) =>
                (counts[t][MATCH_CORRECT] = 1 /\ counts[t][MATCH_TOTAL] = 1)

\* [Unknown#1] against [Unknown#2] has returned
C6_Witness ==
    \E t \in Calls :
        /\ Done(t)
        /\ cls = "LabelMatcherWithUnknownSupport"
        /\ rlabels[t] = <<Unknown(1)>>
        /\ hlabels[t] = <<Unknown(2)>>
        /\ counts[t][MATCH_CORRECT] = 1

\* C7: a call with two empty sequences returns at once, with all counts
\* zero and all details empty, no matrix, no mapping and the solver
\* left as it was.
C7_EmptyEmpty ==
    [][\A t \in Calls :
          (pc[t] = "idle" /\ pc'[t] # "idle"
             /\ rlabels'[t] = <<>> /\ hlabels'[t] = <<>>) =>
                /\ pc'[t] = "done"
                /\ counts'[t] = ZeroCounts
                /\ details'[t] = EmptyDetails
                /\ match'[t] = <<>>
                /\ mapping'[t] = <<>>
                /\ munkres' = munkres]_vars

\* an empty call has returned on a solver still holding an earlier problem
C7_Witness ==
    \E t \in Calls :
        /\ Done(t)
        /\ rlabels[t] = <<>> /\ hlabels[t] = <<>>
        /\ counts[t] = ZeroCounts
        /\ munkres.n > 0

\* C8: no call fails, and every lookup of the classification is in
\* bounds: no assigned pair has r >= NR and h >= NH, a pair with r >= NR
\* has h < len(hlabels), any other pair has r < len(rlabels), and a pair
\* of two real items lies inside the match matrix.
C8_NeverFails ==
    \A t \in Calls :
        /\ pc[t] # "failed"
        /\ pc[t] \in {"loop", "done"} =>
             \A i \in 1..Len(mapping[t]) :
                LET r == mapping[t][i][1]
                    h == mapping[t][i][2]
                IN  /\ ~(r >= NR[t] /\ h >= NH[t])
                    /\ r >= NR[t] => h < Len(hlabels[t])
                    /\ r < NR[t] => r < Len(rlabels[t])
                    /\ (r < NR[t] /\ h < NH[t]) =>
                          (r < Len(match[t]) /\ h < Len(match[t][r + 1]))

\* a returned call in which a padding row was assigned
C8_Witness ==
    \E t \in Calls :
        /\ Done(t)
        /\ \E i \in 1..Len(mapping[t]) : mapping[t][i][1] >= NR[t]
        /\ counts[t][MATCH_FALSE_ALARM] >= 1

\* C9: the match matrix is N x N with N = max(NR, NH), its real cells hold
\* the predicate, its padding cells are False, and the solver is handed
\* cost 0 for a match and 1 for every other cell.
C9_MatchMatrix ==
    \A t \in Calls : pc[t] \in {"compute", "solve", "results", "loop"} =>
        /\ Len(match[t]) = Max(Len(rlabels[t]), Len(hlabels[t]))
        /\ \A r \in 1..Len(match[t]) :
             /\ Len(match[t][r]) = Len(match[t])
             /\ \A h \in 1..Len(match[t]) :
                  match[t][r][h] =
                     IF r <= Len(rlabels[t]) /\ h <= Len(hlabels[t])
                     THEN self_match(cls, rlabels[t][r], hlabels[t][h])
                     ELSE FALSE
        /\ pc[t] = "solve" =>
             /\ munkres.n = Len(match[t])
             /\ \A r, h \in 1..Len(match[t]) :
                  munkres.C[r][h] = IF match[t][r][h] THEN 0 ELSE 1

\* the solver holds a padded matrix that has a matching cell
C9_Witness ==
    \E t \in Calls :
        /\ pc[t] = "solve"
        /\ NR[t] # NH[t]
        /\ \E r, h \in 1..N[t] : munkres.C[r][h] = 0

\* C10: whichever optimal assignment the solver picked, false alarm is
\* max(NH - NR, 0), missed detection is max(NR - NH, 0) and confusion is
\* min(NR, NH) - correct.
C10_CountsClosedForm ==
    \A t \in Calls : Done(t) =>
        /\ counts[t][MATCH_FALSE_ALARM] = Max(NH[t] - NR[t], 0)
        /\ counts[t][MATCH_MISSED_DETECTION] = Max(NR[t] - NH[t], 0)
        /\ counts[t][MATCH_CONFUSION] = Min(NR[t], NH[t]) - counts[t][MATCH_CORRECT]

\* the solver had several optimal assignments to pick from, and a
\* reference item matching no hypothesis item came out as a confusion
C10_Witness ==
    \E t \in Calls :
        /\ Done(t)
        /\ 1 <= NR[t] /\ NR[t] < NH[t]
        /\ Cardinality(Assignments(CostMatrix(match[t]))) > 1
        /\ \E r \in 1..NR[t] : \A h \in 1..NH[t] :
              ~self_match(cls, rlabels[t][r], hlabels[t][h])
        /\ counts[t][MATCH_CONFUSION] >= 1
        /\ counts[t][MATCH_MISSED_DETECTION] = 0

====
